---- MODULE Spec2Model ----
(***************************************************************************)
(* A model of streamlit_scraper.py: the EbayScraper class (page fetcher,   *)
(* listing extractor, paginator, scrape loop) and the part of main() that  *)
(* creates the scraper, runs it and handles the stop button.               *)
(*                                                                         *)
(* Texts that the code inspects character by character (prices, titles)   *)
(* are sequences of one-character strings.  URLs are sequences of tokens:  *)
(* the origin, a path, the separators "?" and "&", the literal "_pgn=",    *)
(* a decimal number, and other parameters as single tokens.  The wall      *)
(* clock prefix "[HH:MM:SS] " of a status update and the random parts of   *)
(* the sleeps are left out of the recorded values.                         *)
(***************************************************************************)
EXTENDS Integers, Sequences, FiniteSets, TLC

VARIABLES
    input_url,        \* main: ebay_url, the text handed to EbayScraper(...)
    base_url,         \* self.base_url
    max_pages,        \* scrape's max_pages; 0 stands for None
    has_bar,          \* whether scrape got a progress_bar (main always passes one)
    bar,              \* the value shown by the progress_bar widget
    products,         \* self.products
    status_updates,   \* self.status_updates
    is_running,       \* self.is_running
    progress,         \* self.progress
    current_url,      \* scrape's local current_url; <<>> stands for None
    page_number,      \* scrape's local page_number
    attempt,          \* get_page's loop variable
    html_content,     \* scrape's local html_content
    pc,               \* where the run is
    io,               \* what the run did to the outside: GETs, sleeps; and stop requests received
    returned,         \* what scrape returned to main
    is_scraping,      \* st.session_state.is_scraping
    data_frame,       \* st.session_state.data_frame (its rows)
    price_text,        \* convert_to_usd's argument, when it is called on its own
    usd_price,        \* what convert_to_usd returned for price_text
    usd_twice         \* what convert_to_usd returned for usd_price

\* the variables of a call of convert_to_usd on its own
conv == <<price_text, usd_price, usd_twice>>

vars == <<input_url, base_url, max_pages, has_bar, bar, products, status_updates,
          is_running, progress, current_url, page_number, attempt, html_content,
          pc, io, returned, is_scraping, data_frame, price_text, usd_price, usd_twice>>

-----------------------------------------------------------------------------
(* Bounds of the model *)

\* largest max_pages the host passes (main allows 1..100)
MaxPagesBound == 2
\* pages fetched at most in a run with max_pages = None
MaxPageNumber == 2
\* failed GET attempts at most in one run
MaxFailures == 3

-----------------------------------------------------------------------------
(* Sequence helpers *)

Contains(s, t) == \E i \in 1..Len(s) : s[i] = t

\* index of the first occurrence of token t in s (s contains t)
IndexOf(s, t) == CHOOSE i \in 1..Len(s) : s[i] = t /\ \A j \in 1..(i-1) : s[j] # t

Prefix(s, n) == SubSeq(s, 1, n)

Suffix(s, n) == SubSeq(s, n, Len(s))

RECURSIVE Split(_, _)
\* str.split(sep) on tokens: the runs between the separators
Split(s, sep) ==
    IF ~Contains(s, sep) THEN <<s>>
    ELSE <<Prefix(s, IndexOf(s, sep) - 1)>> \o Split(Suffix(s, IndexOf(s, sep) + 1), sep)

RECURSIVE Join(_, _)
\* sep.join(parts)
Join(parts, sep) ==
    IF Len(parts) = 0 THEN <<>>
    ELSE IF Len(parts) = 1 THEN parts[1]
    ELSE parts[1] \o <<sep>> \o Join(Tail(parts), sep)

RECURSIVE Flatten(_)
Flatten(ss) == IF ss = <<>> THEN <<>> ELSE Head(ss) \o Flatten(Tail(ss))

Digit == <<"0", "1", "2", "3", "4", "5", "6", "7", "8", "9">>

RECURSIVE NumStr(_)
\* str(n) of a natural number, as one token
NumStr(n) == IF n < 10 THEN Digit[n + 1] ELSE NumStr(n \div 10) \o Digit[(n % 10) + 1]

-----------------------------------------------------------------------------
(* URLs *)

Origin == "https://www.ebay.com"

\* what __init__ appends after "?" or "&": "_ccy=1&_fmt=US&_dmd=1"
CurrencyParams == <<"_ccy=1", "&", "_fmt=US", "&", "_dmd=1">>

\* EbayScraper.__init__: the base URL kept by the scraper
InitBaseUrl(url) ==
    IF Contains(url, "?") THEN url \o <<"&">> \o CurrencyParams
    ELSE url \o <<"?">> \o CurrencyParams

\* a reference urljoin cannot parse ("http://[" : ValueError, Invalid IPv6 URL)
BadRef == <<"http://[">>

UrljoinRaises(ref) == Contains(ref, "http://[")

\* urllib.parse.urljoin(base, ref) for a base <<origin, path, ...>>
Urljoin(base, ref) ==
    IF ref = <<>> THEN base
    ELSE IF ref[1] = Origin THEN ref
    ELSE IF ref[1] = "?" THEN
        (IF Contains(base, "?") THEN Prefix(base, IndexOf(base, "?") - 1) ELSE base) \o ref
    ELSE <<base[1]>> \o ref

\* the page number the fallback writes into the URL
NextPageNumber_Same(current_page_number) == current_page_number

NextPageNumber(current_page_number) == current_page_number + 1

\* a parameter that holds the page number, as the code tests it
IsPgnParam(param) == Contains(param, "_pgn=")

RECURSIVE ReplacePgn(_, _)
\* the loop over query_part.split("&") that rewrites the page-number parameter
ReplacePgn(params, current_page_number) ==
    IF params = <<>> THEN <<>>
    ELSE <<IF IsPgnParam(Head(params))
           THEN <<"_pgn=", NumStr(NextPageNumber(current_page_number))>>
           ELSE Head(params)>> \o ReplacePgn(Tail(params), current_page_number)

\* the fallback of get_next_page_url: the next URL built from the base URL
FallbackUrl(base, current_page_number) ==
    IF Contains(base, "?") THEN
        LET base_part  == Prefix(base, IndexOf(base, "?") - 1)
            query_part == Suffix(base, IndexOf(base, "?") + 1)
        IN  IF Contains(query_part, "_pgn=")
            THEN base_part \o <<"?">> \o Join(ReplacePgn(Split(query_part, "&"), current_page_number), "&")
            ELSE base \o <<"&", "_pgn=", NumStr(NextPageNumber(current_page_number))>>
    ELSE <<>>

\* the page has a pagination control with a next button that has a target
HasNextTarget_Off(html) == FALSE

HasNextTarget(html) == html.pag /\ html.next.elem /\ html.next.has_href

\* get_next_page_url raises (urljoin does)
NextPageRaises(html) ==
    html.body = "html" /\ HasNextTarget(html) /\ UrljoinRaises(html.next.href)

\* get_next_page_url(html_content, current_page_number); <<>> stands for None
GetNextPageUrl_FallbackFirst(base, html, current_page_number) ==
    IF html.body # "html" THEN <<>>
    ELSE IF Contains(base, "?") THEN FallbackUrl(base, current_page_number)
    ELSE IF HasNextTarget(html) THEN Urljoin(base, html.next.href)
    ELSE <<>>

GetNextPageUrl(base, html, current_page_number) ==
    IF html.body # "html" THEN <<>>
    ELSE IF HasNextTarget(html) THEN Urljoin(base, html.next.href)
    ELSE FallbackUrl(base, current_page_number)

-----------------------------------------------------------------------------
(* Texts: sequences of one-character strings *)

\* the characters U+00C2, U+00A3, U+00E2, U+201A, U+00AC, U+00A5, U+00A9, U+00B9
\* that the keys of EXCHANGE_RATES are written with
cC2 == "<C2>"
cA3 == "<A3>"
cE2 == "<E2>"
c201A == "<201A>"
cAC == "<AC>"
cA5 == "<A5>"
cA9 == "<A9>"
cB9 == "<B9>"

IsSpace(c) == c \in {" ", "\n", "\t"}

IsDigit(c) == c \in {"0", "1", "2", "3", "4", "5", "6", "7", "8", "9"}

DigitValue(c) == CHOOSE d \in 0..9 : Digit[d + 1] = c

\* sub occurs in s at position i
OccursAt(s, sub, i) ==
    /\ i >= 1
    /\ i + Len(sub) - 1 <= Len(s)
    /\ \A k \in 1..Len(sub) : s[i + k - 1] = sub[k]

\* str.find + 1: the position of the first occurrence of sub in s, 0 when there is none
FindSub(s, sub) ==
    IF \E i \in 1..Len(s) : OccursAt(s, sub, i)
    THEN CHOOSE i \in 1..Len(s) : OccursAt(s, sub, i) /\ \A j \in 1..(i-1) : ~OccursAt(s, sub, j)
    ELSE 0

\* sub in s (sub not empty)
HasSub(s, sub) == FindSub(s, sub) # 0

StartsWith(s, sub) == OccursAt(s, sub, 1)

RECURSIVE Replace(_, _, _)
\* s.replace(old, new)
Replace(s, old, new) ==
    IF ~HasSub(s, old) THEN s
    ELSE Prefix(s, FindSub(s, old) - 1) \o new
         \o Replace(Suffix(s, FindSub(s, old) + Len(old)), old, new)

\* s.split(sep)[0]
SplitFirst(s, sep) == IF HasSub(s, sep) THEN Prefix(s, FindSub(s, sep) - 1) ELSE s

RECURSIVE LStrip(_)
LStrip(s) == IF s # <<>> /\ IsSpace(Head(s)) THEN LStrip(Tail(s)) ELSE s

RECURSIVE RStrip(_)
RStrip(s) == IF s # <<>> /\ IsSpace(s[Len(s)]) THEN RStrip(Prefix(s, Len(s) - 1)) ELSE s

\* s.strip()
Strip(s) == RStrip(LStrip(s))

IsNumChar(c) == IsDigit(c) \/ c \in {",", "."}

RECURSIVE NumRun(_)
\* the longest prefix of s made of digits, commas and points
NumRun(s) == IF s # <<>> /\ IsNumChar(Head(s)) THEN <<Head(s)>> \o NumRun(Tail(s)) ELSE <<>>

\* re.search(r'[\d,.]+', s): the first run of digits, commas and points; <<>> when no match
NumericMatch(s) ==
    IF \E i \in 1..Len(s) : IsNumChar(s[i])
    THEN NumRun(Suffix(s, CHOOSE i \in 1..Len(s) : IsNumChar(s[i]) /\ \A j \in 1..(i-1) : ~IsNumChar(s[j])))
    ELSE <<>>

RECURSIVE DigitsValue(_)
DigitsValue(s) == IF s = <<>> THEN 0 ELSE 10 * DigitsValue(Prefix(s, Len(s) - 1)) + DigitValue(s[Len(s)])

RECURSIVE Pow10(_)
Pow10(n) == IF n = 0 THEN 1 ELSE 10 * Pow10(n - 1)

\* float(t) accepts the text: digits with at most one point and at least one digit
FloatOk_AnyPoints(t) ==
    /\ \A i \in 1..Len(t) : IsDigit(t[i]) \/ t[i] = "."
    /\ \E i \in 1..Len(t) : IsDigit(t[i])

FloatOk(t) ==
    /\ \A i \in 1..Len(t) : IsDigit(t[i]) \/ t[i] = "."
    /\ Cardinality({i \in 1..Len(t) : t[i] = "."}) <= 1
    /\ \E i \in 1..Len(t) : IsDigit(t[i])

\* float(t) as mant / 10^scale
FloatOf(t) ==
    LET digits == SelectSeq(t, IsDigit)
        scale  == IF Contains(t, ".") THEN Len(t) - IndexOf(t, ".") ELSE 0
    IN  [mant |-> DigitsValue(digits), scale |-> scale]

\* round(num / den, 1) in tenths, ties to the even tenth
RoundTenths(num, den) ==
    LET q == (10 * num) \div den
        r == (10 * num) % den
    IN  IF 2 * r > den THEN q + 1
        ELSE IF 2 * r = den THEN (IF q % 2 = 0 THEN q ELSE q + 1)
        ELSE q

RECURSIVE NumText(_)
\* str(n) of a natural number, as a text
NumText(n) == IF n < 10 THEN <<Digit[n + 1]>> ELSE NumText(n \div 10) \o <<Digit[(n % 10) + 1]>>

\* str(x) of a float x given in tenths: "36.5", "10.0"
FloatText_Trim(tenths) ==
    IF tenths % 10 = 0 THEN NumText(tenths \div 10)
    ELSE NumText(tenths \div 10) \o <<".">> \o <<Digit[(tenths % 10) + 1]>>

FloatText(tenths) == NumText(tenths \div 10) \o <<".">> \o <<Digit[(tenths % 10) + 1]>>

US == <<"U", "S", " ", "$">>

-----------------------------------------------------------------------------
(* ExchangeRateTable and PriceNormalizer *)

\* EbayScraper.EXCHANGE_RATES in its order, the rates in thousandths
EXCHANGE_RATES == <<
    [symbol |-> <<"N", "T", "$">>,     rate |-> 32906],
    [symbol |-> <<"H", "K", "$">>,     rate |-> 7800],
    [symbol |-> <<cC2, cA3>>,          rate |-> 770],
    [symbol |-> <<cE2, c201A, cAC>>,   rate |-> 910],
    [symbol |-> <<"C", "$">>,          rate |-> 1350],
    [symbol |-> <<"A", "$">>,          rate |-> 1500],
    [symbol |-> <<cC2, cA5>>,          rate |-> 149000],
    [symbol |-> <<cE2, c201A, cA9>>,   rate |-> 1350000],
    [symbol |-> <<cE2, c201A, cB9>>,   rate |-> 83000] >>

RECURSIVE ConvertFrom(_, _)
\* the loop of convert_to_usd from the i-th entry of the table on
ConvertFrom(price_str, i) ==
    IF i > Len(EXCHANGE_RATES) THEN price_str
    ELSE IF HasSub(price_str, EXCHANGE_RATES[i].symbol)
              /\ NumericMatch(price_str) # <<>>
              /\ FloatOk(SelectSeq(NumericMatch(price_str), LAMBDA c : c # ","))
         THEN LET amount == FloatOf(SelectSeq(NumericMatch(price_str), LAMBDA c : c # ","))
              IN  US \o FloatText(RoundTenths(amount.mant * 1000,
                                              Pow10(amount.scale) * EXCHANGE_RATES[i].rate))
         ELSE ConvertFrom(price_str, i + 1)

\* EbayScraper.convert_to_usd
convert_to_usd_WithNote(price_str) ==
    IF ConvertFrom(price_str, 1) = price_str THEN price_str
    ELSE ConvertFrom(price_str, 1) \o <<" ", "(">> \o price_str \o <<")">>

convert_to_usd(price_str) == ConvertFrom(price_str, 1)

-----------------------------------------------------------------------------
(* Status updates *)

\* add_status_update(message): the log with the message appended
add_status_update_Front(log, message) == <<message>> \o log

add_status_update(log, message) == Append(log, message)

-----------------------------------------------------------------------------
(* ListingExtractor *)

NoTitle == <<"No Title">>
NoPrice == <<"No Price">>
\* Python's None as a product_url or an image_url
NoneUrl == "None"

ShopOnEbay == "Shop on eBay"

NoComma(t) == SelectSeq(t, LAMBDA c : c # ",")

\* lines 154-157: "NT $", "nt$" and "NT" brought to "NT$"
NormalizeNT(price) ==
    IF ~HasSub(price, <<"N", "T", "$">>)
       /\ (HasSub(price, <<"N", "T", " ", "$">>) \/ HasSub(price, <<"n", "t", "$">>)
           \/ HasSub(price, <<"N", "T">>))
    THEN LET p1 == Replace(Replace(price, <<"N", "T", " ", "$">>, <<"N", "T", "$">>),
                           <<"n", "t", "$">>, <<"N", "T", "$">>)
         IN  IF HasSub(p1, <<"N", "T">>) /\ HasSub(p1, <<"$">>) /\ ~HasSub(p1, <<"N", "T", "$">>)
             THEN Replace(Replace(p1, <<"N", "T">>, <<"N", "T", "$">>),
                          <<"N", "T", "$", "$">>, <<"N", "T", "$">>)
             ELSE p1
    ELSE price

\* any(currency in price for currency in EXCHANGE_RATES.keys())
HasCurrency(price) == \E i \in 1..Len(EXCHANGE_RATES) : HasSub(price, EXCHANGE_RATES[i].symbol)

\* lines 160-171: a price already in US dollars, brought to "US $<one decimal>"
StandardizeUsd_Raw(price) ==
    LET m == NumericMatch(price)
    IN  IF m = <<>> THEN price ELSE US \o m

StandardizeUsd(price) ==
    LET m == NumericMatch(price)
    IN  IF m = <<>> THEN price
        ELSE IF FloatOk(NoComma(m))
             THEN US \o FloatText(RoundTenths(FloatOf(NoComma(m)).mant, Pow10(FloatOf(NoComma(m)).scale)))
             ELSE US \o m

\* lines 148-151: the text of the price element, trimmed, its range and unit cut off
TrimPrice(text) == SplitFirst(SplitFirst(Strip(text), <<" ", "t", "o", " ">>), <<"/">>)

\* lines 146-182: the price of an item and the status updates made on the way
ExtractPrice(price_elem) ==
    IF ~price_elem.elem THEN [price |-> NoPrice, updates |-> <<>>]
    ELSE LET price == NormalizeNT(TrimPrice(price_elem.text))
         IN  IF HasSub(price, US) \/ StartsWith(price, <<"$">>)
             THEN [price |-> StandardizeUsd(price), updates |-> <<>>]
             ELSE IF HasCurrency(price)
             THEN [price |-> convert_to_usd(price),
                   updates |-> <<[kind |-> "converted", old |-> price, new |-> convert_to_usd(price)]>>]
             ELSE IF HasSub(price, <<"$">>) /\ ~HasSub(price, US)
             THEN [price |-> <<"U", "S", " ">> \o price, updates |-> <<>>]
             ELSE [price |-> price, updates |-> <<>>]

\* line 143: the title of an item
ExtractTitle(title_elem) == IF title_elem.elem THEN Strip(title_elem.text) ELSE NoTitle

\* line 139: the filler item "Shop on eBay"
IsFiller(title_elem) == title_elem.elem /\ Contains(title_elem.text, ShopOnEbay)

\* line 184: the target of the item's link, NoneUrl when there is none
ExtractUrl_Placeholder(link_elem) == IF link_elem.elem /\ link_elem.has_href THEN link_elem.href ELSE "#"

ExtractUrl(link_elem) == IF link_elem.elem /\ link_elem.has_href THEN link_elem.href ELSE NoneUrl

\* "if product_url:", "if not image_url:" : neither None nor the empty text
Truthy(u) == u # NoneUrl /\ u # ""

EndsWithGif(u) == u \in {"https://i.ebayimg.com/s.gif", "//i.ebayimg.com/t.gif"}

HasHttps(u) == u \in {"https://i.ebayimg.com/a.jpg", "https://i.ebayimg.com/b.jpg",
                      "https://i.ebayimg.com/s.gif"}

\* the image nodes of a container in document order: each node, then the images inside it
DocOrder(media) == Flatten([i \in 1..Len(media) |-> <<media[i]>> \o media[i].kids])

\* select_one: the first of the nodes that match, <<>> when there is none
First(hits) == IF hits = <<>> THEN <<>> ELSE <<Head(hits)>>

\* lines 187-193: the image taken from the element of class s-item__image-img
ImageFromElem(media) ==
    LET image_elem == First(SelectSeq(DocOrder(media), LAMBDA n : n.cls))
    IN  IF image_elem = <<>> THEN NoneUrl
        ELSE IF image_elem[1].has_data_src THEN image_elem[1].data_src
        ELSE IF image_elem[1].has_src /\ ~EndsWithGif(image_elem[1].src) THEN image_elem[1].src
        ELSE NoneUrl

\* lines 196-202: the image inside a picture element of class s-item__image-img
ImageFromPicture(media, image_url) ==
    IF Truthy(image_url) THEN image_url
    ELSE LET picture_elem == First(SelectSeq(DocOrder(media), LAMBDA n : n.tag = "picture" /\ n.cls))
         IN  IF picture_elem # <<>> /\ picture_elem[1].kids # <<>> /\ picture_elem[1].kids[1].has_src
             THEN picture_elem[1].kids[1].src
             ELSE image_url

\* lines 205-210: the first image of the item with a secure source that is no gif
ImageFromAny(media, image_url) ==
    IF Truthy(image_url) THEN image_url
    ELSE LET hit == First(SelectSeq(DocOrder(media),
                              LAMBDA n : n.tag = "img" /\ n.has_src /\ ~EndsWithGif(n.src) /\ HasHttps(n.src)))
         IN  IF hit # <<>> THEN hit[1].src ELSE image_url

\* lines 186-210
ExtractImage(media) == ImageFromAny(media, ImageFromPicture(media, ImageFromElem(media)))

\* line 213: only items with a URL are kept
KeepsItem_All(product_url) == TRUE

KeepsItem(product_url) == Truthy(product_url)

\* lines 220-222: an exception raised while the item was extracted is logged and the
\* item left out; updates are the status updates the item had made before
ItemError(updates) ==
    [keep |-> FALSE, raised |-> TRUE, product |-> <<>>,
     updates |-> add_status_update(updates, [kind |-> "error_extracting", error |-> "Exception"])]

\* the body of the loop over the containers (lines 131-222) for one container; fault
\* tells where an access to the parsed element raises: at its title ("early", lines
\* 133-143), at its image ("late", lines 189-210), or nowhere ("none")
ParseItem(container) ==
    IF container.fault = "early" THEN ItemError(<<>>)
    ELSE IF IsFiller(container.title)
    THEN [keep |-> FALSE, raised |-> FALSE, updates |-> <<>>, product |-> <<>>]
    ELSE LET p == ExtractPrice(container.price)
             product_url == ExtractUrl(container.link)
         IN  IF container.fault = "late" THEN ItemError(p.updates)
             ELSE [keep    |-> KeepsItem(product_url),
                   raised  |-> FALSE,
                   updates |-> p.updates,
                   product |-> <<[title       |-> ExtractTitle(container.title),
                                  price       |-> p.price,
                                  product_url |-> product_url,
                                  image_url   |-> ExtractImage(container.media)]>>]

\* one pass of the loop: the item is appended when kept, its status updates always
AddItem_Break(item, rest) ==
    IF item.raised THEN [products |-> <<>>, updates |-> item.updates]
    ELSE [products |-> (IF item.keep THEN item.product ELSE <<>>) \o rest.products,
          updates  |-> item.updates \o rest.updates]

AddItem(item, rest) ==
    [products |-> (IF item.keep THEN item.product ELSE <<>>) \o rest.products,
     updates  |-> item.updates \o rest.updates]

RECURSIVE ParseContainers(_)
\* the loop over the containers: the products kept and the status updates made
ParseContainers(containers) ==
    IF containers = <<>> THEN [products |-> <<>>, updates |-> <<>>]
    ELSE AddItem(ParseItem(Head(containers)), ParseContainers(Tail(containers)))

\* "if html_content:" : neither None nor the empty text
HasContent(html) == html.body = "html"

\* parse_product_listings(html_content)
parse_product_listings(html) ==
    IF ~HasContent(html) THEN [products |-> <<>>, updates |-> <<>>]
    ELSE ParseContainers(html.items)

-----------------------------------------------------------------------------
(* What the host enters and what the remote site may answer *)

SearchPath == "/sch/i.html"

\* the URLs the host enters (main accepts those that start with the origin)
InputUrls == {
    <<Origin, SearchPath>>,
    <<Origin, SearchPath, "?", "_pgn=", "2", "&", "_sop=12">> }

\* the errors a GET attempt may end with (requests.exceptions.RequestException)
Errors == {"ConnectionError", "HTTPError 503"}

NoElem == [elem |-> FALSE, text |-> <<>>]
Elem(text) == [elem |-> TRUE, text |-> text]
NoLink == [elem |-> FALSE, has_href |-> FALSE, href |-> ""]
BareLink == [elem |-> TRUE, has_href |-> FALSE, href |-> ""]
Link(href) == [elem |-> TRUE, has_href |-> TRUE, href |-> href]

Img(cls, has_data_src, data_src, has_src, src) ==
    [tag |-> "img", cls |-> cls, has_data_src |-> has_data_src, data_src |-> data_src,
     has_src |-> has_src, src |-> src, kids |-> <<>>]
Picture(cls, kids) ==
    [tag |-> "picture", cls |-> cls, has_data_src |-> FALSE, data_src |-> "",
     has_src |-> FALSE, src |-> "", kids |-> kids]

Container(title, price, link, media) ==
    [title |-> title, price |-> price, link |-> link, media |-> media, fault |-> "none"]

\* the container, with an access to its parsed element raising at the given place
Faulty(container, where) == [container EXCEPT !.fault = where]

TitlePhone == <<" ", "Phone", " ">>
TitleShop == <<ShopOnEbay>>
PriceRange == <<"$", "1", "0", " ", "t", "o", " ", "$", "2", "0">>
PriceNT == <<"N", "T", "$", "1", ",", "2", "0", "0">>
PriceEUR == <<"E", "U", "R", " ", "5">>

ItemFull == Container(Elem(TitlePhone), Elem(PriceRange), Link("https://www.ebay.com/itm/1"),
                      <<Img(TRUE, TRUE, "https://i.ebayimg.com/a.jpg", TRUE, "https://i.ebayimg.com/s.gif")>>)
ItemConverted == Container(Elem(TitlePhone), Elem(PriceNT), Link("https://www.ebay.com/itm/2"), <<>>)
ItemNoUrl == Container(Elem(TitlePhone), Elem(PriceNT), NoLink, <<>>)
ItemFiller == Container(Elem(TitleShop), NoElem, Link("https://www.ebay.com/itm/0"), <<>>)

NoNext == [elem |-> FALSE, has_href |-> FALSE, href |-> <<>>]
NextTo(href) == [elem |-> TRUE, has_href |-> TRUE, href |-> href]

Html(items, pag, next) == [body |-> "html", items |-> items, pag |-> pag, next |-> next]

\* html_content = None, and response.text = ""
NoneContent == [body |-> "none", items |-> <<>>, pag |-> FALSE, next |-> NoNext]
EmptyContent == [body |-> "empty", items |-> <<>>, pag |-> FALSE, next |-> NoNext]

\* the bodies the remote site may answer a GET with
Pages == {
    Html(<<ItemFull, ItemFiller>>, FALSE, NoNext),
    Html(<<ItemConverted, ItemNoUrl>>, TRUE, NextTo(<<SearchPath, "?", "_pgn=", "9">>)),
    Html(<<ItemNoUrl, ItemFiller>>, FALSE, NoNext),
    Html(<<ItemFull>>, TRUE, NextTo(BadRef)),
    EmptyContent }

-----------------------------------------------------------------------------
(* Progress values: fractions num/den *)

Zero == [num |-> 0, den |-> 1]
One == [num |-> 1, den |-> 1]

\* min(1.0, page_number / max_pages)
ProgressValue(pn, mp) == IF pn >= mp THEN One ELSE [num |-> pn, den |-> mp]

-----------------------------------------------------------------------------
(* The run: main creates the scraper and calls scrape *)

\* range(max_retries) in get_page
max_retries == 3

NoResult == [none |-> TRUE, value |-> <<>>]

\* main, lines 421-432: the scraper after EbayScraper(ebay_url), before scrape is called
Init ==
    /\ input_url \in InputUrls
    /\ base_url = InitBaseUrl(input_url)
    /\ max_pages \in 0..MaxPagesBound
    /\ has_bar = TRUE
    /\ bar = Zero
    /\ products = <<>>
    /\ status_updates = <<>>
    /\ is_running = FALSE
    /\ progress = Zero
    /\ current_url = <<>>
    /\ page_number = 1
    /\ attempt = 0
    /\ html_content = NoneContent
    /\ pc = "created"
    /\ io = <<>>
    /\ returned = NoResult
    /\ is_scraping = TRUE
    /\ data_frame = NoResult
    /\ price_text = <<>>
    /\ usd_price = <<>>
    /\ usd_twice = <<>>

\* scrape, lines 260-275
Start ==
    /\ pc = "created"
    /\ is_running' = TRUE
    /\ progress' = Zero
    /\ products' = <<>>
    /\ status_updates' = add_status_update(
                            add_status_update(<<>>, [kind |-> "starting", url |-> base_url]),
                            [kind |-> "max_pages", max_pages |-> max_pages])
    /\ current_url' = base_url
    /\ page_number' = 1
    /\ pc' = "loop"
    /\ UNCHANGED conv
    /\ UNCHANGED <<input_url, base_url, max_pages, has_bar, bar, attempt, html_content,
                   io, returned, is_scraping, data_frame>>

\* the condition of the while loop, line 277
LoopCondition_IgnoreStop(url, running) == url # <<>>

LoopCondition(url, running) == url # <<>> /\ running

\* scrape, lines 277-285: the loop goes on to the next page or ends
LoopCheck ==
    /\ pc = "loop"
    /\ IF LoopCondition(current_url, is_running)
       THEN /\ page_number <= MaxPageNumber
            /\ status_updates' = add_status_update(status_updates,
                                     [kind |-> "scraping_page", page |-> page_number])
            /\ attempt' = 0
            /\ pc' = "get_page"
       ELSE /\ pc' = "finish"
            /\ UNCHANGED <<status_updates, attempt>>
    /\ UNCHANGED conv
    /\ UNCHANGED <<input_url, base_url, max_pages, has_bar, bar, products, is_running, progress,
                   current_url, page_number, html_content, io, returned, is_scraping, data_frame>>

\* what is recorded of a GET, a sleep or a stop request: the page being scraped, the URL,
\* where the run was, and for a GET how it ended (its error, or the body received)
Event(ev, ok, error, body) ==
    [ev |-> ev, page |-> page_number, url |-> current_url, at |-> pc,
     ok |-> ok, error |-> error, body |-> body]

FailedGets == Cardinality({i \in 1..Len(io) : io[i].ev = "get" /\ ~io[i].ok})

\* get_page, lines 103-105: an attempt succeeds and get_page returns the body
AttemptOk ==
    /\ pc = "get_page"
    /\ \E page \in Pages :
          /\ html_content' = page
          /\ io' = Append(io, Event("get", TRUE, "", page))
    /\ pc' = "fetched"
    /\ UNCHANGED conv
    /\ UNCHANGED <<input_url, base_url, max_pages, has_bar, bar, products, status_updates,
                   is_running, progress, current_url, page_number, attempt, returned,
                   is_scraping, data_frame>>

\* line 109: another attempt follows the failed one
RetryFollows_Always(att) == TRUE

RetryFollows(att) == att < max_retries - 1

\* get_page, lines 106-116: an attempt fails
AttemptFails ==
    /\ pc = "get_page"
    /\ FailedGets < MaxFailures
    /\ \E e \in Errors :
          LET log == add_status_update(status_updates,
                         [kind |-> "error_fetching", url |-> current_url, error |-> e])
          IN  /\ io' = Append(io, Event("get", FALSE, e, NoneContent))
              /\ IF RetryFollows(attempt)
                 THEN /\ status_updates' = add_status_update(log, [kind |-> "retrying", attempt |-> attempt])
                      /\ pc' = "backoff"
                      /\ UNCHANGED html_content
                 ELSE /\ status_updates' = add_status_update(log, [kind |-> "max_retries"])
                      /\ html_content' = NoneContent
                      /\ pc' = "fetched"
    /\ UNCHANGED conv
    /\ UNCHANGED <<input_url, base_url, max_pages, has_bar, bar, products, is_running, progress,
                   current_url, page_number, attempt, returned, is_scraping, data_frame>>

\* get_page, line 113 and the next step of "for attempt in range(max_retries)"
Backoff ==
    /\ pc = "backoff"
    /\ io' = Append(io, Event("backoff", TRUE, "", NoneContent))
    /\ attempt' = attempt + 1
    /\ IF attempt + 1 < max_retries
       THEN pc' = "get_page" /\ UNCHANGED html_content
       ELSE pc' = "fetched" /\ html_content' = NoneContent
    /\ UNCHANGED conv
    /\ UNCHANGED <<input_url, base_url, max_pages, has_bar, bar, products, status_updates,
                   is_running, progress, current_url, page_number, returned, is_scraping, data_frame>>


\* lines 289-290: the products after a page's products were added
Extend(old, page_products) == old \o page_products

\* line 287: "if html_content:" in scrape
PageFetched_Always(html) == TRUE

PageFetched(html) == HasContent(html)

\* line 289: "if page_products:"
FoundProducts_Always(page_products) == TRUE

FoundProducts(page_products) == page_products # <<>>

\* scrape, lines 287-308 and 319-321: what was fetched is parsed and the products are added
ProcessPage ==
    /\ pc = "fetched"
    /\ IF PageFetched(html_content)
       THEN LET parsed == parse_product_listings(html_content)
                log    == status_updates \o parsed.updates
            IN  IF FoundProducts(parsed.products)
                THEN /\ products' = Extend(products, parsed.products)
                     /\ status_updates' =
                            add_status_update(
                                add_status_update(log,
                                    [kind |-> "found", count |-> Len(parsed.products),
                                     page |-> page_number, total |-> Len(products')]),
                                [kind |-> "waiting"])
                     /\ bar' = IF max_pages # 0 /\ has_bar
                               THEN ProgressValue(page_number, max_pages) ELSE bar
                     /\ pc' = "sleep"
                ELSE /\ status_updates' = add_status_update(log,
                                              [kind |-> "no_products", page |-> page_number])
                     /\ pc' = "finish"
                     /\ UNCHANGED <<products, bar>>
       ELSE /\ status_updates' = add_status_update(status_updates, [kind |-> "failed_fetch"])
            /\ pc' = "finish"
            /\ UNCHANGED <<products, bar>>
    /\ UNCHANGED conv
    /\ UNCHANGED <<input_url, base_url, max_pages, has_bar, is_running, progress, current_url,
                   page_number, attempt, html_content, io, returned, is_scraping, data_frame>>

\* scrape, line 309: the politeness sleep
Sleep_Skipped ==
    /\ pc = "sleep"
    /\ pc' = "paginate"
    /\ UNCHANGED conv
    /\ UNCHANGED <<input_url, base_url, max_pages, has_bar, bar, products, status_updates,
                   is_running, progress, current_url, page_number, attempt, html_content,
                   io, returned, is_scraping, data_frame>>

Sleep ==
    /\ pc = "sleep"
    /\ io' = Append(io, Event("sleep", TRUE, "", NoneContent))
    /\ pc' = "paginate"
    /\ UNCHANGED conv
    /\ UNCHANGED <<input_url, base_url, max_pages, has_bar, bar, products, status_updates,
                   is_running, progress, current_url, page_number, attempt, html_content,
                   returned, is_scraping, data_frame>>

\* line 312: the last page asked for was scraped
ReachedMax_Late(mp, pn) == mp # 0 /\ pn > mp

ReachedMax(mp, pn) == mp # 0 /\ pn >= mp

\* scrape, lines 312-318: stop at max_pages, or take the next page's URL
Paginate ==
    /\ pc = "paginate"
    /\ IF ReachedMax(max_pages, page_number)
       THEN /\ status_updates' = add_status_update(status_updates,
                                     [kind |-> "reached_max", max_pages |-> max_pages])
            /\ pc' = "finish"
            /\ UNCHANGED <<current_url, page_number>>
       ELSE IF NextPageRaises(html_content)
       THEN /\ pc' = "except"
            /\ UNCHANGED <<status_updates, current_url, page_number>>
       ELSE /\ current_url' = GetNextPageUrl(base_url, html_content, page_number)
            /\ page_number' = page_number + 1
            /\ pc' = "loop"
            /\ UNCHANGED status_updates
    /\ UNCHANGED conv
    /\ UNCHANGED <<input_url, base_url, max_pages, has_bar, bar, products, is_running, progress,
                   attempt, html_content, io, returned, is_scraping, data_frame>>

\* line 325: the run was stopped from outside
StoppedManually(running) == ~running

\* scrape, lines 323-337 and 345: the end of the run after the loop
Finish_StillRunning ==
    /\ pc = "finish"
    /\ LET log == add_status_update(status_updates, [kind |-> "complete", total |-> Len(products)])
       IN  status_updates' = IF StoppedManually(is_running)
                             THEN add_status_update(log, [kind |-> "stopped_manually"])
                             ELSE log
    /\ bar' = IF has_bar THEN One ELSE bar
    /\ returned' = [none |-> FALSE, value |-> products]
    /\ pc' = "returned"
    /\ UNCHANGED conv
    /\ UNCHANGED <<input_url, base_url, max_pages, has_bar, products, progress, current_url,
                   page_number, attempt, html_content, io, is_scraping, data_frame, is_running>>

Finish ==
    /\ pc = "finish"
    /\ LET log == add_status_update(status_updates, [kind |-> "complete", total |-> Len(products)])
       IN  status_updates' = IF StoppedManually(is_running)
                             THEN add_status_update(log, [kind |-> "stopped_manually"])
                             ELSE log
    /\ bar' = IF has_bar THEN One ELSE bar
    /\ returned' = [none |-> FALSE, value |-> products]
    /\ is_running' = FALSE
    /\ pc' = "returned"
    /\ UNCHANGED conv
    /\ UNCHANGED <<input_url, base_url, max_pages, has_bar, products, progress, current_url,
                   page_number, attempt, html_content, io, is_scraping, data_frame>>

\* scrape, lines 339-345: an exception raised inside the try block
Except ==
    /\ pc = "except"
    /\ status_updates' = add_status_update(status_updates,
                             [kind |-> "error_during", error |-> "Invalid IPv6 URL"])
    /\ returned' = NoResult
    /\ is_running' = FALSE
    /\ pc' = "returned"
    /\ UNCHANGED conv
    /\ UNCHANGED <<input_url, base_url, max_pages, has_bar, bar, products, progress, current_url,
                   page_number, attempt, html_content, io, is_scraping, data_frame>>

\* main, lines 442-448: the products returned become the data frame
HandleResult ==
    /\ pc = "returned"
    /\ data_frame' = IF ~returned.none /\ returned.value # <<>> THEN returned ELSE data_frame
    /\ is_scraping' = FALSE
    /\ pc' = "done"
    /\ UNCHANGED conv
    /\ UNCHANGED <<input_url, base_url, max_pages, has_bar, bar, products, status_updates,
                   is_running, progress, current_url, page_number, attempt, html_content,
                   io, returned>>

\* main, lines 451-455: the stop button
StopRequest ==
    /\ is_scraping
    /\ is_running' = FALSE
    /\ is_scraping' = FALSE
    /\ io' = Append(io, Event("stop", TRUE, "", NoneContent))
    /\ UNCHANGED conv
    /\ UNCHANGED <<input_url, base_url, max_pages, has_bar, bar, products, status_updates,
                   progress, current_url, page_number, attempt, html_content, pc, returned,
                   data_frame>>

Next ==
    \/ Start
    \/ LoopCheck
    \/ AttemptOk
    \/ AttemptFails
    \/ Backoff
    \/ ProcessPage
    \/ Sleep
    \/ Paginate
    \/ Finish
    \/ Except
    \/ HandleResult
    \/ StopRequest

Spec == Init /\ [][Next]_vars

-----------------------------------------------------------------------------
(* What the claims are stated with *)

\* the GETs and sleeps of the run, without the stop requests
Net == SelectSeq(io, LAMBDA e : e.ev # "stop")

\* the GET attempts made for page p
GetsOf(p) == {i \in 1..Len(io) : io[i].ev = "get" /\ io[i].page = p}

FailedGetsOf(p) == {i \in GetsOf(p) : ~io[i].ok}

HasKind(log, kind) == \E i \in 1..Len(log) : log[i].kind = kind

\* the position of the last entry of that kind (there is one)
LastOfKind(log, kind) ==
    CHOOSE i \in 1..Len(log) : log[i].kind = kind /\ \A j \in (i+1)..Len(log) : log[j].kind # kind

KindsOf(log) == [i \in 1..Len(log) |-> log[i].kind]

\* the status updates made since the last "Scraping page n..."
FetchSegment == SubSeq(status_updates, LastOfKind(status_updates, "scraping_page") + 1, Len(status_updates))

\* get_page gave up: it returned None to scrape, which has not looked at it yet
GaveUp == pc = "fetched" /\ html_content.body = "none"

\* what parse_product_listings extracts from each page the site can serve
ListingsOfPage == [page \in Pages |-> parse_product_listings(page).products]

RECURSIVE ProductsOf(_)
\* the listings extracted from the bodies of a sequence of successful GETs
ProductsOf(events) ==
    IF events = <<>> THEN <<>>
    ELSE ListingsOfPage[Head(events).body] \o ProductsOf(Tail(events))

\* the listings of the pages fetched before page n
ProductsBefore(n) == ProductsOf(SelectSeq(io, LAMBDA e : e.ev = "get" /\ e.ok /\ e.page < n))

\* the last GET attempt of the run (there is one)
LastGet == LET gets == SelectSeq(io, LAMBDA e : e.ev = "get") IN gets[Len(gets)]

HasGet == \E i \in 1..Len(io) : io[i].ev = "get"

-----------------------------------------------------------------------------
(* PageFetcher *)

\* C1: one call of get_page makes at most 3 GET attempts; no attempt follows a
\* successful one; it returns None only after exactly 3 failed attempts; a backoff
\* sleep comes only between two attempts of the same call, never after the third failure.
C1_AtMostThreeAttempts ==
    /\ \A p \in {io[i].page : i \in 1..Len(io)} : Cardinality(GetsOf(p)) <= 3
    /\ \A i \in 1..Len(io) :
          (io[i].ev = "get" /\ io[i].ok) =>
              \A j \in (i+1)..Len(io) : ~(io[j].ev = "get" /\ io[j].page = io[i].page)
    /\ GaveUp => Cardinality(FailedGetsOf(page_number)) = 3
    /\ LET net == Net
       IN  \A i \in 1..Len(net) :
              net[i].ev = "backoff" =>
                 /\ i > 1
                 /\ net[i-1].ev = "get" /\ ~net[i-1].ok /\ net[i-1].page = net[i].page
                 /\ Cardinality({j \in 1..(i-1) : net[j].ev = "get" /\ net[j].page = net[i].page}) < 3
                 /\ i < Len(net) => (net[i+1].ev = "get" /\ net[i+1].page = net[i].page)
                 /\ i = Len(net) => pc = "get_page"

\* get_page has given up after three failures and two backoff sleeps
C1_Witness ==
    /\ GaveUp
    /\ Cardinality(FailedGetsOf(page_number)) = 3
    /\ Cardinality({i \in 1..Len(io) : io[i].ev = "backoff"}) = 2

\* C2 as stated: a fetch that fails three times leaves one status event per attempt
\* and then one give-up event, four entries in all.
C2_OneEntryPerAttempt ==
    GaveUp => /\ Len(FetchSegment) = 4
              /\ FetchSegment[4].kind = "max_retries"

\* C2, amended: a fetch that fails three times leaves six entries: an error entry for
\* each failed attempt, a retry announcement after the first and after the second, the
\* give-up entry after the third; scrape then logs the failed fetch and leaves the loop.
C2_FailedFetchLog ==
    /\ GaveUp => KindsOf(FetchSegment) = <<"error_fetching", "retrying", "error_fetching",
                                            "retrying", "error_fetching", "max_retries">>
    /\ (HasKind(status_updates, "max_retries") /\ ~GaveUp) =>
          /\ pc \in {"finish", "returned", "done"}
          /\ status_updates[LastOfKind(status_updates, "max_retries") + 1].kind = "failed_fetch"
          /\ Cardinality({i \in 1..Len(status_updates) : status_updates[i].kind = "max_retries"}) = 1

\* the run is over after a fetch that failed three times
C2_Witness ==
    /\ pc = "done"
    /\ HasKind(status_updates, "max_retries")
    /\ HasKind(status_updates, "failed_fetch")

-----------------------------------------------------------------------------
(* ScrapeJob *)

\* C3: when the fetch of page N has used up its attempts, no GET follows the third
\* failure, the log holds the error of that last attempt and the failed-fetch entry,
\* products stays the listings of pages 1..N-1, and scrape returns them normally
\* (no exception reaches the caller) with is_running false.
C3_FailedFetchEndsRun ==
    HasKind(status_updates, "max_retries") =>
        LET last == LastGet
        IN
        /\ ~last.ok /\ last.page = page_number
        /\ status_updates[LastOfKind(status_updates, "error_fetching")].error = last.error
        /\ products = ProductsBefore(page_number)
        /\ pc \in {"fetched", "finish", "returned", "done"}
        /\ pc # "fetched" => HasKind(status_updates, "failed_fetch")
        /\ pc \in {"returned", "done"} =>
              /\ ~is_running
              /\ ~returned.none
              /\ returned.value = products

\* the second page could not be fetched and the listings of the first were returned
C3_Witness ==
    /\ pc = "done"
    /\ HasKind(status_updates, "max_retries")
    /\ page_number = 2
    /\ returned.value # <<>>
    /\ returned.value = ProductsBefore(2)

\* a page was fetched and scrape has dealt with it
Processed == pc \notin {"created", "get_page", "backoff", "fetched"} /\ HasGet /\ LastGet.ok

\* C4: when page N was fetched and nothing is extracted from it, the log gets the
\* "no products" entry for page N, no further GET is made, products stays the listings
\* of pages 1..N-1, and the run ends normally returning them.
C4_ZeroItemsCompletes ==
    (Processed /\ HasContent(LastGet.body) /\ ListingsOfPage[LastGet.body] = <<>>) =>
        /\ HasKind(status_updates, "no_products")
        /\ status_updates[LastOfKind(status_updates, "no_products")].page = page_number
        /\ page_number = LastGet.page
        /\ products = ProductsBefore(page_number)
        /\ pc \in {"finish", "returned", "done"}
        /\ ~HasKind(status_updates, "failed_fetch")
        /\ pc \in {"returned", "done"} =>
              /\ ~returned.none /\ returned.value = products
              /\ HasKind(status_updates, "complete")

\* the second page had no listing and the listings of the first were returned
C4_Witness ==
    /\ pc = "done"
    /\ HasKind(status_updates, "no_products")
    /\ page_number = 2
    /\ returned.value # <<>>
    /\ returned.value = ProductsBefore(2)

\* C5: with max_pages >= 1, no GET is made for a page number above max_pages, and the
\* loop is never in get_page for such a page.
C5_AtMostMaxPages ==
    max_pages >= 1 =>
        /\ \A i \in 1..Len(io) : io[i].ev = "get" => io[i].page <= max_pages
        /\ pc \in {"get_page", "backoff", "fetched"} => page_number <= max_pages
        /\ Cardinality({io[i].page : i \in {j \in 1..Len(io) : io[j].ev = "get"}}) <= max_pages

\* the run stopped at max_pages although the last page offered a next page
C5_Witness ==
    /\ pc = "done"
    /\ max_pages = 1
    /\ HasKind(status_updates, "reached_max")
    /\ LastGet.page = 1
    /\ HasNextTarget(LastGet.body)

\* the stop request came while the loop was dealing with a page
InLoop(at) == at \in {"get_page", "backoff", "fetched", "sleep", "paginate"}

LastUpdate == status_updates[Len(status_updates)]

C7_ProgressReachesOne ==
    /\ progress.num >= 0 /\ progress.num <= progress.den
    /\ (pc = "sleep" /\ max_pages # 0) => progress = ProgressValue(page_number, max_pages)
    /\ (pc \in {"returned", "done"} /\ \E i \in 1..Len(io) : io[i].ev = "get" /\ io[i].ok) =>
          progress = One

-----------------------------------------------------------------------------
(* Paginator *)

HasPgn(url) == Contains(url, "_pgn=")

\* int(tok) of a decimal token
StrNum(tok) == CHOOSE n \in 0..99 : NumStr(n) = tok

\* the URL with the value of its page-number parameter raised by one and nothing else changed
Incremented(url) ==
    [i \in 1..Len(url) |-> IF i > 1 /\ url[i-1] = "_pgn=" THEN NumStr(StrNum(url[i]) + 1) ELSE url[i]]

\* the next URL was just taken from a page without a next target
FellBack == pc = "loop" /\ page_number > 1 /\ ~HasNextTarget(html_content)

\* C8: when the base URL has a page-number parameter _pgn=n and the page has no
\* pagination control, the next URL is the base URL with n+1 for n and every other
\* parameter kept in its place.
C8_PageNumberIncremented ==
    (FellBack /\ HasPgn(base_url)) => current_url = Incremented(base_url)

\* C9: a job created from a URL without a query string has no next URL after a page
\* without a pagination control, so that it ends there.
C9_NoQueryNoNextUrl ==
    (FellBack /\ ~Contains(input_url, "?")) => current_url = <<>>

-----------------------------------------------------------------------------
(* The extractor on one page: every shape of an item container *)

ExtractTitles == {NoElem, Elem(TitlePhone), Elem(TitleShop)}

ExtractPrices == {NoElem, Elem(PriceRange), Elem(PriceNT), Elem(PriceEUR)}

ExtractLinks == {NoLink, BareLink, Link(""), Link("https://www.ebay.com/itm/1")}

ExtractMedia == {
    <<>>,
    <<Img(TRUE, FALSE, "", FALSE, "")>>,
    <<Img(TRUE, TRUE, "https://i.ebayimg.com/a.jpg", FALSE, "")>>,
    <<Img(TRUE, TRUE, "", FALSE, "")>>,
    <<Img(TRUE, FALSE, "", TRUE, "https://i.ebayimg.com/s.gif")>>,
    <<Picture(TRUE, <<Img(FALSE, FALSE, "", TRUE, "//i.ebayimg.com/t.gif")>>)>>,
    <<Img(FALSE, FALSE, "", TRUE, "https://i.ebayimg.com/b.jpg")>> }

Containers ==
    {Container(t, p, l, m) : t \in ExtractTitles, p \in ExtractPrices, l \in ExtractLinks, m \in ExtractMedia}

\* pages of one container, alone or followed by a complete item
ExtractPages ==
    {Html(<<c>>, FALSE, NoNext) : c \in Containers}
    \cup {Html(<<c, ItemConverted>>, FALSE, NoNext) : c \in Containers}

\* scrape right after get_page returned the first page (lines 260-285)
InitExtract ==
    /\ input_url = <<Origin, SearchPath>>
    /\ base_url = InitBaseUrl(input_url)
    /\ max_pages = 1
    /\ has_bar = TRUE
    /\ bar = Zero
    /\ products = <<>>
    /\ status_updates = <<[kind |-> "starting", url |-> base_url],
                          [kind |-> "max_pages", max_pages |-> max_pages],
                          [kind |-> "scraping_page", page |-> 1]>>
    /\ is_running = TRUE
    /\ progress = Zero
    /\ current_url = base_url
    /\ page_number = 1
    /\ attempt = 0
    /\ html_content \in ExtractPages
    /\ pc = "fetched"
    /\ io = <<[ev |-> "get", page |-> 1, url |-> base_url, at |-> "get_page",
               ok |-> TRUE, error |-> "", body |-> html_content]>>
    /\ returned = NoResult
    /\ is_scraping = TRUE
    /\ data_frame = NoResult
    /\ price_text = <<>>
    /\ usd_price = <<>>
    /\ usd_twice = <<>>

NextExtract ==
    \/ ProcessPage
    \/ Sleep
    \/ Paginate
    \/ Finish
    \/ HandleResult

SpecExtract == InitExtract /\ [][NextExtract]_vars

\* the container has a link with a target
HasUrl(c) == c.link.elem /\ c.link.has_href /\ c.link.href # ""

\* no image node of the container has a source attribute
NoImageSource(c) == \A i \in 1..Len(DocOrder(c.media)) :
                        ~DocOrder(c.media)[i].has_src /\ ~DocOrder(c.media)[i].has_data_src

-----------------------------------------------------------------------------
(* convert_to_usd called on its own *)

PricePrefixes ==
    {EXCHANGE_RATES[i].symbol : i \in 1..Len(EXCHANGE_RATES)}
    \cup {US, <<"$">>, <<"E", "U", "R", " ">>, <<>>, <<"N", "T", " ", "$">>}

PriceNumbers == {
    <<>>,
    <<"5">>,
    <<"1", ",", "2", "0", "0">>,
    <<"1", "2", ".", "3", "4">>,
    <<"3", "6", ".", "5">>,
    <<"1", ".", "2", ".", "3">>,
    <<".">> }

PriceSuffixes == {<<>>, <<" ", "C", "$">>}

\* the price texts convert_to_usd is called with
PriceTexts == {pre \o num \o suf : pre \in PricePrefixes, num \in PriceNumbers, suf \in PriceSuffixes}

\* before EbayScraper.convert_to_usd(price_text) is called
InitPrice ==
    /\ input_url = <<Origin, SearchPath>>
    /\ base_url = InitBaseUrl(input_url)
    /\ max_pages = 1
    /\ has_bar = TRUE
    /\ bar = Zero
    /\ products = <<>>
    /\ status_updates = <<>>
    /\ is_running = FALSE
    /\ progress = Zero
    /\ current_url = <<>>
    /\ page_number = 1
    /\ attempt = 0
    /\ html_content = NoneContent
    /\ pc = "price"
    /\ io = <<>>
    /\ returned = NoResult
    /\ is_scraping = FALSE
    /\ data_frame = NoResult
    /\ price_text \in PriceTexts
    /\ usd_price = <<>>
    /\ usd_twice = <<>>

\* usd_price = EbayScraper.convert_to_usd(price_str)
Convert ==
    /\ pc = "price"
    /\ usd_price' = convert_to_usd(price_text)
    /\ pc' = "converted"
    /\ UNCHANGED <<price_text, usd_twice>>
    /\ UNCHANGED <<input_url, base_url, max_pages, has_bar, bar, products, status_updates,
                   is_running, progress, current_url, page_number, attempt, html_content,
                   io, returned, is_scraping, data_frame>>

\* usd_twice = EbayScraper.convert_to_usd(usd_price)
ConvertAgain ==
    /\ pc = "converted"
    /\ usd_twice' = convert_to_usd(usd_price)
    /\ pc' = "reconverted"
    /\ UNCHANGED <<price_text, usd_price>>
    /\ UNCHANGED <<input_url, base_url, max_pages, has_bar, bar, products, status_updates,
                   is_running, progress, current_url, page_number, attempt, html_content,
                   io, returned, is_scraping, data_frame>>

NextPrice ==
    \/ Convert
    \/ ConvertAgain

SpecPrice == InitPrice /\ [][NextPrice]_vars

\* convert_to_usd has returned for price_text
Converted == pc \in {"converted", "reconverted"}

\* digits, a point and one more digit
IsOneDecimal(t) ==
    /\ Len(t) >= 3
    /\ t[Len(t) - 1] = "."
    /\ \A i \in (1..Len(t)) \ {Len(t) - 1} : IsDigit(t[i])

\* "US $" and a number with one decimal
IsCanonical(t) == StartsWith(t, US) /\ IsOneDecimal(Suffix(t, Len(US) + 1))

\* the first run of digits, commas and points of the text, its commas removed
NumberOf(t) == NoComma(NumericMatch(t))

\* the text has a numeric portion and it reads as a decimal number
HasNumber(t) ==
    /\ \E i \in 1..Len(NumberOf(t)) : IsDigit(NumberOf(t)[i])
    /\ Cardinality({i \in 1..Len(NumberOf(t)) : NumberOf(t)[i] = "."}) <= 1

\* the rate of the first symbol of the table that the text contains
RateOf(t) ==
    EXCHANGE_RATES[CHOOSE i \in 1..Len(EXCHANGE_RATES) :
                      /\ HasSub(t, EXCHANGE_RATES[i].symbol)
                      /\ \A j \in 1..(i-1) : ~HasSub(t, EXCHANGE_RATES[j].symbol)].rate

Abs(n) == IF n < 0 THEN -n ELSE n

\* the canonical text out is within half a tenth of the amount of the text in divided by its rate
IsConversionOf(out, in) ==
    LET tenths == DigitsValue(SelectSeq(Suffix(out, Len(US) + 1), IsDigit))
        amount == FloatOf(NumberOf(in))
        den    == RateOf(in) * Pow10(amount.scale)
    IN  2 * Abs(10 * 1000 * amount.mant - tenths * den) <= den

\* C11 as stated: every price text that contains a symbol of the table is converted to
\* "US $" and a number with one decimal.
C11_SymbolGivesCanonical ==
    (Converted /\ HasCurrency(price_text)) => IsCanonical(usd_price)

\* C11: every price text that contains a symbol of the table and whose numeric portion
\* reads as a number is converted to "US $" and the amount divided by the rate of the
\* first such symbol, rounded to one decimal.
C11_CanonicalOutput ==
    (Converted /\ HasCurrency(price_text) /\ HasNumber(price_text)) =>
        /\ IsCanonical(usd_price)
        /\ IsConversionOf(usd_price, price_text)

\* "A$1,200" was converted to "US $800.0"
C11_Witness ==
    /\ pc = "converted"
    /\ price_text = <<"A", "$", "1", ",", "2", "0", "0">>
    /\ usd_price = <<"U", "S", " ", "$", "8", "0", "0", ".", "0">>

\* C12: convert_to_usd applied to its own result returns it unchanged, and a text
\* already of the form "US $" and one decimal is returned unchanged.
C12_Idempotent ==
    /\ pc = "reconverted" => usd_twice = usd_price
    /\ (Converted /\ IsCanonical(price_text)) => usd_price = price_text

\* "NT$1,200" became "US $36.5", which the second call left as it was
C12_Witness ==
    /\ pc = "reconverted"
    /\ price_text = PriceNT
    /\ usd_price = <<"U", "S", " ", "$", "3", "6", ".", "5">>
    /\ usd_twice = usd_price

\* C13: a text without a symbol of the table, or whose numeric portion is missing or
\* does not read as a number, is returned unchanged.
C13_UnchangedWhenNoConversion ==
    (Converted /\ (~HasCurrency(price_text) \/ ~HasNumber(price_text))) => usd_price = price_text

\* "C$1.2.3" has a symbol of the table but no number, and came back unchanged
C13_Witness ==
    /\ Converted
    /\ price_text = <<"C", "$", "1", ".", "2", ".", "3">>
    /\ usd_price = price_text

-----------------------------------------------------------------------------
(* ListingExtractor: prices *)

\* the first container of the fetched page is a listing that is kept
FirstKept ==
    /\ html_content.items[1].title # Elem(TitleShop)
    /\ html_content.items[1].link.has_href
    /\ html_content.items[1].link.href # ""

\* the fetched page was parsed and its first container has the range "$10 to $20" as price
RangeExtracted ==
    /\ pc # "fetched"
    /\ html_content.items[1].price = Elem(PriceRange)
    /\ FirstKept

\* C14 as stated: the price "$10 to $20" is extracted as "US $10".
C14_RangeGivesUS10 ==
    RangeExtracted => products[1].price = <<"U", "S", " ", "$", "1", "0">>

\* C14: the price text "$10 to $20" is cut to "$10" before the currency is looked at,
\* and the listing's price is "US $10.0".
C14_RangeGivesLowerBound ==
    RangeExtracted =>
        /\ TrimPrice(html_content.items[1].price.text) = <<"$", "1", "0">>
        /\ products[1].price = <<"U", "S", " ", "$", "1", "0", ".", "0">>

\* a listing priced "$10 to $20" was returned with the price "US $10.0"
C14_Witness ==
    /\ pc = "done"
    /\ html_content.items[1].price = Elem(PriceRange)
    /\ ~returned.none /\ returned.value # <<>>
    /\ returned.value[1].price = <<"U", "S", " ", "$", "1", "0", ".", "0">>
    /\ returned.value[1].product_url = "https://www.ebay.com/itm/1"

-----------------------------------------------------------------------------
(* Paginator: every shape of the pagination controls of a page *)

\* the URLs the host enters, with and without query parameters and page number
PaginateUrls == InputUrls \cup {<<Origin, SearchPath, "?", "_nkw=x">>}

\* an element of class pagination__next without a target
BareNext == [elem |-> TRUE, has_href |-> FALSE, href |-> <<>>]

\* what the page may hold as next control
NextControls == {
    NoNext,
    BareNext,
    NextTo(<<>>),
    NextTo(<<SearchPath, "?", "_pgn=", "9">>),
    NextTo(<<"?", "_nkw=y", "&", "_pgn=", "7">>),
    NextTo(<<Origin, "/b/phones", "?", "_pgn=", "4">>),
    NextTo(BadRef) }

\* pages with one listing, with or without an element of class pagination__items
PaginatePages == {Html(<<ItemFull>>, pag, next) : pag \in BOOLEAN, next \in NextControls}

\* scrape after the first page was fetched, its listings added and the sleep done
\* (lines 260-309)
InitPaginate ==
    /\ input_url \in PaginateUrls
    /\ base_url = InitBaseUrl(input_url)
    /\ max_pages \in 0..MaxPagesBound
    /\ has_bar = TRUE
    /\ bar = IF max_pages # 0 THEN ProgressValue(1, max_pages) ELSE Zero
    /\ html_content \in PaginatePages
    /\ products = parse_product_listings(html_content).products
    /\ status_updates = <<[kind |-> "starting", url |-> base_url],
                          [kind |-> "max_pages", max_pages |-> max_pages],
                          [kind |-> "scraping_page", page |-> 1],
                          [kind |-> "found", count |-> Len(products), page |-> 1,
                           total |-> Len(products)],
                          [kind |-> "waiting"]>>
    /\ is_running = TRUE
    /\ progress = Zero
    /\ current_url = base_url
    /\ page_number = 1
    /\ attempt = 0
    /\ pc = "paginate"
    /\ io = <<[ev |-> "get", page |-> 1, url |-> base_url, at |-> "get_page",
               ok |-> TRUE, error |-> "", body |-> html_content],
              [ev |-> "sleep", page |-> 1, url |-> base_url, at |-> "sleep",
               ok |-> TRUE, error |-> "", body |-> NoneContent]>>
    /\ returned = NoResult
    /\ is_scraping = TRUE
    /\ data_frame = NoResult
    /\ price_text = <<>>
    /\ usd_price = <<>>
    /\ usd_twice = <<>>

NextPaginate ==
    \/ Paginate
    \/ LoopCheck
    \/ Finish
    \/ Except
    \/ HandleResult

SpecPaginate == InitPaginate /\ [][NextPaginate]_vars

\* get_next_page_url was called for the first page
NextUrlAsked == pc # "paginate" /\ ~(max_pages # 0 /\ max_pages <= 1)

\* the page has an element of class pagination__items and a next element with a target
HasTarget(html) == html.pag /\ html.next.elem /\ html.next.has_href

-----------------------------------------------------------------------------
(* ListingExtractor: an item whose extraction raises *)

\* the containers whose extraction raises, before or after their price was handled
FaultyContainers ==
    {Faulty(Container(t, p, l, <<>>), where) :
        t \in ExtractTitles, p \in ExtractPrices, l \in ExtractLinks, where \in {"early", "late"}}

\* pages with a container whose extraction raises, alone or between two complete items
FaultyPages ==
    {Html(<<c>>, FALSE, NoNext) : c \in FaultyContainers}
    \cup {Html(<<ItemConverted, c, ItemFull>>, FALSE, NoNext) : c \in FaultyContainers}

\* scrape right after get_page returned such a page as the first page (lines 260-285)
InitFaulty ==
    /\ input_url = <<Origin, SearchPath>>
    /\ base_url = InitBaseUrl(input_url)
    /\ max_pages = 1
    /\ has_bar = TRUE
    /\ bar = Zero
    /\ products = <<>>
    /\ status_updates = <<[kind |-> "starting", url |-> base_url],
                          [kind |-> "max_pages", max_pages |-> max_pages],
                          [kind |-> "scraping_page", page |-> 1]>>
    /\ is_running = TRUE
    /\ progress = Zero
    /\ current_url = base_url
    /\ page_number = 1
    /\ attempt = 0
    /\ html_content \in FaultyPages
    /\ pc = "fetched"
    /\ io = <<[ev |-> "get", page |-> 1, url |-> base_url, at |-> "get_page",
               ok |-> TRUE, error |-> "", body |-> html_content]>>
    /\ returned = NoResult
    /\ is_scraping = TRUE
    /\ data_frame = NoResult
    /\ price_text = <<>>
    /\ usd_price = <<>>
    /\ usd_twice = <<>>

SpecFaulty == InitFaulty /\ [][NextExtract]_vars

\* extracting the container raises: at its title, or at its image unless it is a filler
RaisesIn(c) ==
    \/ c.fault = "early"
    \/ c.fault = "late" /\ c.title # Elem(TitleShop)

\* the page without the containers whose extraction raises
WithoutRaising(html) == [html EXCEPT !.items = SelectSeq(html.items, LAMBDA c : ~RaisesIn(c))]

ErrorsLogged == Cardinality({i \in 1..Len(status_updates) : status_updates[i].kind = "error_extracting"})

\* C16: when the extraction of items of the fetched page raises, the listings added are
\* those of the page's other items in page order, the log has one error entry for each
\* item that raised, and the run goes on as after any page: it does not end in the
\* exception handler.
C16_RaisingItemSkipped ==
    pc # "fetched" =>
        /\ products = parse_product_listings(WithoutRaising(html_content)).products
        /\ ErrorsLogged = Cardinality({i \in 1..Len(html_content.items) : RaisesIn(html_content.items[i])})
        /\ pc # "except"
        /\ pc \in {"returned", "done"} => (~returned.none /\ returned.value = products)
        /\ (\E i \in 1..Len(html_content.items) : RaisesIn(html_content.items[i])) =>
               \E j \in 1..Len(status_updates) :
                   /\ status_updates[j].kind = "error_extracting"
                   /\ \E k \in (j+1)..Len(status_updates) : status_updates[k].kind \in {"found", "no_products"}

\* the second of three items raised after its price had been converted; the first and
\* the third were returned in this order, and the log has one error entry
C16_Witness ==
    /\ pc = "done"
    /\ Len(html_content.items) = 3
    /\ html_content.items[2].fault = "late"
    /\ html_content.items[2].price = Elem(PriceNT)
    /\ html_content.items[2].link = Link("https://www.ebay.com/itm/1")
    /\ Len(returned.value) = 2
    /\ returned.value[1].product_url = "https://www.ebay.com/itm/2"
    /\ returned.value[2].product_url = "https://www.ebay.com/itm/1"
    /\ ErrorsLogged = 1

-----------------------------------------------------------------------------
(* The run as a whole: its log, its sleeps and its end *)

\* C17: from the start of a run to its end every step leaves the entries of the status
\* log and their order as they are and only adds entries at the end, so that what the
\* host reads at one time is a prefix of what it reads later.
C17_LogAppendOnly ==
    [][/\ Len(status_updates') >= Len(status_updates)
       /\ SubSeq(status_updates', 1, Len(status_updates)) = status_updates]_vars

\* the log of a finished run with entries of the fetcher, the extractor and the loop
C17_Witness ==
    /\ pc = "done"
    /\ HasKind(status_updates, "retrying")
    /\ HasKind(status_updates, "converted")
    /\ HasKind(status_updates, "reached_max")
    /\ status_updates[1].kind = "starting"

\* the GETs and the politeness sleeps of the run, in their order
GetsAndSleeps == SelectSeq(io, LAMBDA e : e.ev \in {"get", "sleep"})

\* C18: two GETs with no politeness sleep between them are attempts for the same page;
\* a politeness sleep comes right after the successful GET of its page, whose listings
\* were added before it; the GET after the sleep of page N is for page N+1; and the run
\* waits nowhere but in a GET, a backoff and the politeness sleep.
C18_SleepBetweenPages ==
    LET gs == GetsAndSleeps
    IN  /\ \A i \in 1..Len(gs) :
              /\ (i > 1 /\ gs[i].ev = "get" /\ gs[i-1].ev = "get") =>
                     (gs[i].page = gs[i-1].page /\ ~gs[i-1].ok)
              /\ (i > 1 /\ gs[i].ev = "get" /\ gs[i-1].ev = "sleep") => gs[i].page = gs[i-1].page + 1
              /\ (i = 1 /\ gs[i].ev = "get") => gs[i].page = 1
              /\ gs[i].ev = "sleep" =>
                     /\ i > 1
                     /\ gs[i-1].ev = "get" /\ gs[i-1].ok /\ gs[i-1].page = gs[i].page
                     /\ \E k \in 1..Len(status_updates) :
                            status_updates[k].kind = "found" /\ status_updates[k].page = gs[i].page
        /\ \A i \in 1..Len(io) : io[i].ev \in {"get", "backoff", "sleep", "stop"}
        /\ \A i \in 1..Len(io) : io[i].ev = "sleep" => io[i].at = "sleep"

\* page 2 was fetched after the politeness sleep that followed page 1
C18_Witness ==
    \E i, j \in 1..Len(io) :
        /\ i < j
        /\ io[i].ev = "sleep" /\ io[i].page = 1
        /\ io[j].ev = "get" /\ io[j].page = 2 /\ io[j].ok

\* the steps of scrape that look at what was fetched or at the state of the loop
LoopStep ==
    \/ LoopCheck
    \/ AttemptOk
    \/ AttemptFails
    \/ ProcessPage
    \/ Paginate

\* ENABLED <<LoopStep>>_vars: the position of the run tells which step is next
LoopStepEnabled ==
    \/ pc \in {"get_page", "fetched", "paginate"}
    \/ pc = "loop" /\ (LoopCondition(current_url, is_running) => page_number <= MaxPageNumber)

\* the steps of scrape and get_page: each is taken once it can be, since every GET
\* attempt and every sleep returns; the last conjunct is WF_vars(LoopStep) with its
\* enabling condition written out
SpecLive ==
    /\ Init
    /\ [][Next]_vars
    /\ WF_vars(Backoff)
    /\ WF_vars(Sleep)
    /\ WF_vars(Finish)
    /\ WF_vars(Except)
    /\ ([]<>(~LoopStepEnabled) \/ []<><<LoopStep>>_vars)

\* scrape has ended: it returned or raised into its handler, and the finally clause ran
Ended == pc \in {"returned", "done"}

\* C19: when max_pages is a number from 1 on, a run that was started ends, and once it
\* has ended is_running is false, whichever way the loop was left.
C19_RunEnds ==
    /\ [](Ended => ~is_running)
    /\ (pc # "created" /\ max_pages >= 1) ~> (Ended /\ ~is_running)

\* a run with max_pages = 2 that ended in the exception handler
C19_Witness ==
    /\ Ended
    /\ max_pages = 2
    /\ returned.none
    /\ HasKind(status_updates, "error_during")
    /\ ~is_running

\* the URL of the successful GET of page p (there is one)
UrlOfPage(p) == io[CHOOSE i \in 1..Len(io) : io[i].ev = "get" /\ io[i].ok /\ io[i].page = p].url

PageFetchedOk(p) == \E i \in 1..Len(io) : io[i].ev = "get" /\ io[i].ok /\ io[i].page = p

\* C20: the URL fetched as page k+1 is not the URL fetched as page k, also when the next
\* URL is built from a base URL whose query has a page number.
C20_NoPageFetchedTwice ==
    \A k \in 1..MaxPageNumber :
        (PageFetchedOk(k) /\ PageFetchedOk(k + 1)) => UrlOfPage(k + 1) # UrlOfPage(k)

-----------------------------------------------------------------------------
(* The stop request and the start of the run *)

\* C21: a stop request is not lost: after it is_running stays false, whatever step of
\* scrape comes next, and no fetch of a further page is started; the GETs that follow it
\* are attempts for the page that was being fetched when it was made.
C21_StopNeverLost ==
    \A i \in 1..Len(io) :
        io[i].ev = "stop" =>
            /\ ~is_running
            /\ \A j \in (i+1)..Len(io) :
                  io[j].ev = "get" =>
                      (io[i].at \in {"get_page", "backoff"} /\ io[j].page = io[i].page)

====
